---------------------------- MODULE Spec2Model ----------------------------
(***************************************************************************)
(* A model of python/offsetlogger.py: the NTP offset logger.               *)
(*                                                                         *)
(* Numbers.  The program computes in IEEE doubles; the model computes in   *)
(* exact rationals <<n, d>> (d > 0, lowest terms), so rounding error is    *)
(* outside the model.  NaN, which the program produces when no uncertainty *)
(* is strictly positive, is modelled by explicit status values.            *)
(***************************************************************************)
EXTENDS Integers, Sequences, FiniteSets, TLC

----------------------------------------------------------------------------
(* Exact arithmetic standing for the float arithmetic of numpy / pandas.   *)

Abs(x) == IF x < 0 THEN -x ELSE x

\* F(e), with e evaluated before F is entered
Eval(F(_), e) == CHOOSE v \in {F(a) : a \in {e}} : TRUE

RECURSIVE GCD(_, _)
GCD(a, b) == IF b = 0 THEN a ELSE GCD(b, a % b)

Norm(n, d) ==
    LET g == GCD(Abs(n), Abs(d))
        s == IF d < 0 THEN -1 ELSE 1
    IN  <<(s * n) \div g, (s * d) \div g>>

R(n) == <<n, 1>>

RAdd(a, b) ==
    IF a[2] = b[2] THEN Norm(a[1] + b[1], a[2])
    ELSE LET g == GCD(a[2], b[2])
         IN  Norm(a[1] * (b[2] \div g) + b[1] * (a[2] \div g), (a[2] \div g) * b[2])

RNeg(a) == <<-a[1], a[2]>>

RSub(a, b) == RAdd(a, RNeg(b))

RMul(a, b) ==
    IF a[1] = 0 \/ b[1] = 0 THEN R(0)
    ELSE LET g1 == GCD(Abs(a[1]), b[2])
             g2 == GCD(Abs(b[1]), a[2])
         IN  <<(a[1] \div g1) * (b[1] \div g2), (a[2] \div g2) * (b[2] \div g1)>>

RInv(a) == IF a[1] < 0 THEN <<-a[2], -a[1]>> ELSE <<a[2], a[1]>>

RDiv(a, b) == RMul(a, RInv(b))

RLe(a, b) == RSub(a, b)[1] <= 0

RLt(a, b) == RSub(a, b)[1] < 0

RECURSIVE RSum(_)
RSum(s) == IF s = <<>> THEN R(0) ELSE Eval(LAMBDA r : RAdd(Head(s), r), RSum(Tail(s)))

\* np.mean / Series.mean of a non-empty sequence
Mean(s) == RDiv(RSum(s), R(Len(s)))

\* s[mask]: boolean-mask indexing, order kept
RECURSIVE Select(_, _)
Select(s, mask) ==
    IF s = <<>> THEN <<>>
    ELSE (IF Head(mask) THEN <<Head(s)>> ELSE <<>>) \o Select(Tail(s), Tail(mask))

\* a function over 1..n as a tuple, evaluated once
Tup(f) == f \o <<>>

Col(rows, c) == Tup([i \in 1..Len(rows) |-> rows[i][c]])

----------------------------------------------------------------------------
(* Uncertainties.  sig_offset of a history row is sqrt(1 / sum(weights)),  *)
(* which is not rational; every use of an uncertainty in the program goes  *)
(* through its sign (sigs <= 0, sigs > 0), its order (min), halving, and   *)
(* its square (1 / sigs^2).  An uncertainty s is therefore kept as the     *)
(* pair <<sign(s), s^2>> with s^2 an exact rational.                       *)

Sig(n, d) == <<(IF n > 0 THEN 1 ELSE IF n < 0 THEN -1 ELSE 0), Norm(n * n, d * d)>>

SigPos(s) == s[1] > 0

SigSq(s) == s[2]

\* sigs[sigs > 0].min(): the least strictly positive uncertainty
SigMin(sigs) ==
    LET P == {i \in 1..Len(sigs) : SigPos(sigs[i])}
        m == CHOOSE i \in P : \A j \in P : RLe(SigSq(sigs[i]), SigSq(sigs[j]))
    IN  sigs[m]

SigHalf(s) == <<s[1], RDiv(s[2], R(4))>>

\* np.sqrt(1 / x) kept as an uncertainty
SigOfInvSqrt(x) == <<1, RInv(x)>>

HasPositive(sigs) == \E i \in 1..Len(sigs) : SigPos(sigs[i])

(* weights_from_uncertainty(sig_data).  series = TRUE when the argument is *)
(* a pandas Series (calls from polyfit_with_uncertainty), FALSE when it is *)
(* a numpy array (calls from weighted_mean): with no strictly positive     *)
(* entry, Series.min() of the empty selection is NaN, so every weight is   *)
(* NaN, while ndarray.min() of a zero-size array raises ValueError.        *)
(* The result records the value returned (weights), how the call ended     *)
(* (status) and the caller's sequence as it is after the call (sig_data).  *)
weights_from_uncertainty_nocopy(sig_data, series) ==
    IF HasPositive(sig_data)
    THEN LET sigs == Tup([i \in 1..Len(sig_data) |->
                        IF SigPos(sig_data[i]) THEN sig_data[i]
                        ELSE SigHalf(SigMin(sig_data))])
         IN  [status |-> "ok", sig_data |-> sigs,
              weights |-> Tup([i \in 1..Len(sigs) |-> RInv(SigSq(sigs[i]))])]
    ELSE IF series
         THEN [status |-> IF sig_data = <<>> THEN "ok" ELSE "nan",
               sig_data |-> sig_data, weights |-> <<>>]
         ELSE [status |-> "ValueError", sig_data |-> sig_data, weights |-> <<>>]

weights_from_uncertainty(sig_data, series) ==
    IF HasPositive(sig_data)
    THEN LET copy == sig_data
             sigs == Tup([i \in 1..Len(copy) |->
                        IF SigPos(copy[i]) THEN copy[i]
                        ELSE SigHalf(SigMin(copy))])
         IN  [status |-> "ok", sig_data |-> sig_data,
              weights |-> Tup([i \in 1..Len(sigs) |-> RInv(SigSq(sigs[i]))])]
    ELSE IF series
         THEN [status |-> IF sig_data = <<>> THEN "ok" ELSE "nan",
               sig_data |-> sig_data, weights |-> <<>>]
         ELSE [status |-> "ValueError", sig_data |-> sig_data, weights |-> <<>>]

\* sum_i w[i] * f[i] * g[i]
RECURSIVE Inner(_, _, _)
Inner(w, f, g) ==
    IF w = <<>> THEN R(0)
    ELSE Eval(LAMBDA r : RAdd(RMul(Head(w), RMul(Head(f), Head(g))), r),
              Inner(Tail(w), Tail(f), Tail(g)))

Ones(n) == Tup([i \in 1..n |-> R(1)])

(* weighted_mean(data, sig_data): np.average(data, weights) and            *)
(* sqrt(1 / sum(weights)); both arguments are numpy arrays.                *)
weighted_mean(data, sig_data) ==
    Eval(LAMBDA wr :
           LET w == wr.weights
           IN  IF wr.status # "ok"
               THEN [status |-> wr.status, average |-> R(0), sigma |-> Sig(0, 1)]
               ELSE [status  |-> "ok",
                     average |-> RDiv(Inner(w, data, Ones(Len(w))), RSum(w)),
                     sigma   |-> SigOfInvSqrt(RSum(w))],
         weights_from_uncertainty(sig_data, FALSE))

----------------------------------------------------------------------------
(* np.polyfit(x, y, degree, w = weights) returns the polynomial p of the   *)
(* degree that minimises sum_i (w[i] * (y[i] - p(x[i])))^2.  numpy returns *)
(* its coefficients; the model keeps p by its values at the data (fitted), *)
(* which determine it when the data have more than degree distinct x.      *)
(* The residual y - fitted is the projection of y on the vectors           *)
(* orthogonal to every polynomial of the degree on the data, computed      *)
(* exactly: with D a basis of those vectors and V = diag(1 / w^2),         *)
(*     y - fitted = V D^T (D V D^T)^-1 D y,                                *)
(* which does not change when V or a row of D is multiplied by a positive  *)
(* number: both are kept with coprime integer entries.                     *)

\* the first index that carries the same abscissa as index i
FirstIdx(x, i) == CHOOSE j \in 1..i : x[j] = x[i] /\ \A m \in 1..(j - 1) : x[m] # x[i]

RECURSIVE Reps(_, _)
Reps(x, i) ==
    IF i > Len(x) THEN <<>>
    ELSE (IF FirstIdx(x, i) = i THEN <<i>> ELSE <<>>) \o Reps(x, i + 1)

RECURSIVE RProd(_)
RProd(s) == IF s = <<>> THEN R(1) ELSE Eval(LAMBDA r : RMul(Head(s), r), RProd(Tail(s)))

\* the divided difference over the points idx of x, as a vector over 1..Len(x)
DividedDifference(x, idx) ==
    Tup([i \in 1..Len(x) |->
        IF \E a \in 1..Len(idx) : idx[a] = i
        THEN RInv(RProd(Tup([b \in 1..(Len(idx) - 1) |->
                 LET others == SelectSeq(idx, LAMBDA j : j # i)
                 IN  RSub(x[i], x[others[b]])])))
        ELSE R(0)])

RECURSIVE LCMDen(_)
LCMDen(s) ==
    IF s = <<>> THEN 1
    ELSE Eval(LAMBDA l : (Head(s)[2] \div GCD(Head(s)[2], l)) * l, LCMDen(Tail(s)))

RECURSIVE GCDNum(_)
GCDNum(s) == IF s = <<>> THEN 0 ELSE Eval(LAMBDA g : GCD(Abs(Head(s)[1]), g), GCDNum(Tail(s)))

\* a positive multiple of the vector s with coprime integer entries
Primitive(s) ==
    Eval(LAMBDA l :
      Eval(LAMBDA t :
        Eval(LAMBDA g : Tup([i \in 1..Len(s) |-> R(IF g = 0 THEN 0 ELSE t[i] \div g)]),
             GCDNum(Tup([i \in 1..Len(s) |-> R(t[i])]))),
        Tup([i \in 1..Len(s) |-> s[i][1] * (l \div s[i][2])])),
      LCMDen(s))

\* a basis of the vectors orthogonal to the polynomials of the degree on x
Annihilators(x, degree) ==
    LET n    == Len(x)
        reps == Reps(x, 1)
        dup  == SelectSeq(Tup([i \in 1..n |-> i]), LAMBDA i : FirstIdx(x, i) # i)
        same == Tup([a \in 1..Len(dup) |->
                   Tup([i \in 1..n |-> IF i = dup[a] THEN R(1)
                                       ELSE IF i = FirstIdx(x, dup[a]) THEN R(-1)
                                       ELSE R(0)])])
        nw   == IF Len(reps) > degree + 1 THEN Len(reps) - (degree + 1) ELSE 0
        diff == Tup([a \in 1..nw |->
                   Primitive(DividedDifference(x, SubSeq(reps, a, a + degree + 1)))])
    IN  same \o diff

\* the solution z of G z = b by elimination, G symmetric positive definite
RECURSIVE Solve(_, _)
Solve(G, b) ==
    IF Len(b) = 0 THEN <<>>
    ELSE LET m    == Len(b)
             f(r) == RDiv(G[r][1], G[1][1])
             G2   == Tup([r \in 1..(m - 1) |->
                        Tup([c \in 1..(m - 1) |->
                            RSub(G[r + 1][c + 1], RMul(f(r + 1), G[1][c + 1]))])])
             b2   == Tup([r \in 1..(m - 1) |-> RSub(b[r + 1], RMul(f(r + 1), b[1]))])
             z1(z2) == RDiv(RSub(b[1], RSum(Tup([c \in 1..(m - 1) |->
                                                    RMul(G[1][c + 1], z2[c])]))),
                            G[1][1])
         IN  Eval(LAMBDA G2e : Eval(LAMBDA b2e :
                 Eval(LAMBDA z2 : <<z1(z2)>> \o z2, Solve(G2e, b2e)), b2), G2)

\* y - fitted on distinct abscissae x; V[i] is proportional to 1 / w[i]^2
ResidualsV(x, y, degree, V) ==
    LET n == Len(x)
    IN  Eval(LAMBDA D :
          LET m == Len(D)
          IN  Eval(LAMBDA G : Eval(LAMBDA b :
                Eval(LAMBDA z :
                       Tup([i \in 1..n |->
                           RMul(V[i], RSum(Tup([a \in 1..m |-> RMul(D[a][i], z[a])])))]),
                     Solve(G, b)),
                Tup([a \in 1..m |-> Inner(Ones(n), D[a], y)])),
                Tup([a \in 1..m |-> Tup([b \in 1..m |-> Inner(V, D[a], D[b])])])),
          Annihilators(x, degree))

(* y - fitted.  Points that share an abscissa share their fitted value:    *)
(* the fit is the fit through the weighted means of the groups, each with  *)
(* the sum of its points' squared weights.                                 *)
Residuals(x, y, degree, w) ==
    LET n == Len(x)
    IN  Eval(LAMBDA reps :
          IF Len(reps) = n
          THEN ResidualsV(x, y, degree,
                          Primitive(Tup([i \in 1..n |-> RInv(RMul(w[i], w[i]))])))
          ELSE LET g == Len(reps)
               IN  Eval(LAMBDA v : Eval(LAMBDA Vg : Eval(LAMBDA yg : Eval(LAMBDA rg :
                     Tup([i \in 1..n |->
                         Eval(LAMBDA a : RAdd(RSub(y[i], yg[a]), rg[a]),
                              CHOOSE a \in 1..g : x[reps[a]] = x[i])]),
                     ResidualsV(Tup([a \in 1..g |-> x[reps[a]]]), yg, degree,
                                Primitive(Tup([a \in 1..g |-> RInv(Vg[a])])))),
                     Tup([a \in 1..g |->
                         RDiv(RSum(Tup([j \in 1..n |->
                                  IF x[j] = x[reps[a]] THEN RMul(v[j], y[j]) ELSE R(0)])),
                              Vg[a])])),
                     Tup([a \in 1..g |->
                         RSum(Tup([j \in 1..n |->
                             IF x[j] = x[reps[a]] THEN v[j] ELSE R(0)]))])),
                     Tup([i \in 1..n |-> RMul(w[i], w[i])])),
          Reps(x, 1))

\* np.polyfit(x, y, degree, w) of a non-empty x
polyfit(x, y, degree, w) ==
    Eval(LAMBDA r : [x |-> x, degree |-> degree,
                     fitted |-> Tup([i \in 1..Len(x) |-> RSub(y[i], r[i])])],
         Residuals(x, y, degree, w))

\* the polynomial through the nodes idx of the trend, at t (Lagrange)
Lagrange(trend, idx, t) ==
    RSum(Tup([a \in 1..Len(idx) |->
        RMul(trend.fitted[idx[a]],
             RProd(Tup([b \in 1..(Len(idx) - 1) |->
                 LET others == SelectSeq(idx, LAMBDA j : j # idx[a])
                 IN  RDiv(RSub(t, trend.x[others[b]]),
                          RSub(trend.x[idx[a]], trend.x[others[b]]))])))]))

(* np.polyval(trend, t).  At an abscissa of the data it is the fitted      *)
(* value; elsewhere p is evaluated through degree + 1 of its values (with  *)
(* fewer distinct abscissae numpy's minimum-norm p is not determined by    *)
(* them, and the program never evaluates such a fit off its data).         *)
polyval(trend, t) ==
    IF \E i \in 1..Len(trend.x) : trend.x[i] = t
    THEN trend.fitted[CHOOSE i \in 1..Len(trend.x) : trend.x[i] = t]
    ELSE LET reps == Reps(trend.x, 1)
             k    == IF Len(reps) > trend.degree + 1 THEN trend.degree + 1 ELSE Len(reps)
         IN  Lagrange(trend, SubSeq(reps, 1, k), t)

(* polyfit_with_uncertainty(data, x_column, y_column, sig_column, degree). *)
(* sig_column = "" stands for None.  status: "ok"; "TypeError" (np.polyfit *)
(* rejects an empty x); with NaN weights LAPACK's least squares either     *)
(* does not converge ("LinAlgError") or returns NaN coefficients ("nan"):  *)
(* which one depends on the build, lstsq_raises.                           *)
polyfit_with_uncertainty(data, x_column, y_column, sig_column, degree, lstsq_raises) ==
    LET x_data == Col(data, x_column)
        y_data == Col(data, y_column)
    IN  Eval(LAMBDA wr :
               IF Len(data) = 0 THEN [status |-> "TypeError", fit |-> <<>>]
               ELSE IF wr.status = "nan"
               THEN [status |-> IF lstsq_raises THEN "LinAlgError" ELSE "nan",
                     fit |-> <<>>]
               ELSE [status |-> "ok",
                     fit |-> polyfit(x_data, y_data, degree, wr.weights)],
             IF sig_column # ""
             THEN weights_from_uncertainty(Col(data, sig_column), TRUE)
             ELSE [status |-> "ok", weights |-> Ones(Len(data))])

----------------------------------------------------------------------------
(* np.nanquantile with the default linear interpolation.                   *)

RECURSIVE Insert(_, _)
Insert(v, s) ==
    IF s = <<>> THEN <<v>>
    ELSE IF RLe(v, Head(s)) THEN <<v>> \o s
    ELSE <<Head(s)>> \o Insert(v, Tail(s))

RECURSIVE Sort(_)
Sort(s) == IF s = <<>> THEN <<>> ELSE Eval(LAMBDA r : Insert(Head(s), r), Sort(Tail(s)))

\* the q = qn/qd quantile of a non-empty sequence
nanquantile(values, qn, qd) ==
    LET n  == Len(values)
        lo == ((n - 1) * qn) \div qd
        fr == Norm(((n - 1) * qn) % qd, qd)
    IN  Eval(LAMBDA sorted :
               IF lo + 1 >= n THEN sorted[n]
               ELSE RAdd(sorted[lo + 1],
                         RMul(fr, RSub(sorted[lo + 2], sorted[lo + 1]))),
             Sort(values))

(* outlier_filter(data, filter_column, fit_column, sig_column, level,      *)
(* degree).  fit_column = "" stands for None.  Returns how the call ended  *)
(* and the inlier mask, aligned with data.  A NaN trend makes every        *)
(* residual NaN, every comparison false, and the mask all False.           *)
outlier_filter_strict(data, filter_column, fit_column, sig_column, level, degree, lstsq_raises) ==
    Eval(LAMBDA tr :
      IF tr.status \in {"TypeError", "LinAlgError"}
      THEN [status |-> tr.status, mask |-> <<>>]
      ELSE IF tr.status = "nan"
      THEN [status |-> "ok", mask |-> Tup([i \in 1..Len(data) |-> FALSE])]
      ELSE IF Len(data) = 0
      THEN [status |-> "ok", mask |-> <<>>]
      ELSE Eval(LAMBDA filter_data :
             Eval(LAMBDA q :
                    LET iqr     == RSub(q[2], q[1])
                        min_val == RSub(q[1], RMul(level, iqr))
                        max_val == RAdd(q[2], RMul(level, iqr))
                    IN  [status |-> "ok",
                         mask   |-> Tup([i \in 1..Len(data) |->
                                       /\ RLt(min_val, filter_data[i])
                                       /\ RLt(filter_data[i], max_val)])],
                  <<nanquantile(filter_data, 1, 4), nanquantile(filter_data, 3, 4)>>),
             IF fit_column # ""
             THEN Tup([i \in 1..Len(data) |->
                     RSub(data[i][filter_column],
                          polyval(tr.fit, data[i][fit_column]))])
             ELSE Col(data, filter_column)),
      IF fit_column # ""
      THEN polyfit_with_uncertainty(data, fit_column, filter_column,
                                    sig_column, degree, lstsq_raises)
      ELSE [status |-> "ok", fit |-> <<>>])

outlier_filter(data, filter_column, fit_column, sig_column, level, degree, lstsq_raises) ==
    Eval(LAMBDA tr :
      IF tr.status \in {"TypeError", "LinAlgError"}
      THEN [status |-> tr.status, mask |-> <<>>]
      ELSE IF tr.status = "nan"
      THEN [status |-> "ok", mask |-> Tup([i \in 1..Len(data) |-> FALSE])]
      ELSE IF Len(data) = 0
      THEN [status |-> "ok", mask |-> <<>>]
      ELSE Eval(LAMBDA filter_data :
             Eval(LAMBDA q :
                    LET iqr     == RSub(q[2], q[1])
                        min_val == RSub(q[1], RMul(level, iqr))
                        max_val == RAdd(q[2], RMul(level, iqr))
                    IN  [status |-> "ok",
                         mask   |-> Tup([i \in 1..Len(data) |->
                                       /\ RLe(min_val, filter_data[i])
                                       /\ RLe(filter_data[i], max_val)])],
                  <<nanquantile(filter_data, 1, 4), nanquantile(filter_data, 3, 4)>>),
             IF fit_column # ""
             THEN Tup([i \in 1..Len(data) |->
                     RSub(data[i][filter_column],
                          polyval(tr.fit, data[i][fit_column]))])
             ELSE Col(data, filter_column)),
      IF fit_column # ""
      THEN polyfit_with_uncertainty(data, fit_column, filter_column,
                                    sig_column, degree, lstsq_raises)
      ELSE [status |-> "ok", fit |-> <<>>])

\* np.sum(~filter)
CountFalse(mask) == Cardinality({i \in 1..Len(mask) : ~mask[i]})

(* count_outliers(...) and remove_outliers(...): each calls outlier_filter *)
(* anew and so ends the way it does.                                       *)
count_outliers(data, filter_column, fit_column, sig_column, level, degree, lstsq_raises) ==
    Eval(LAMBDA f : [status |-> f.status, count |-> CountFalse(f.mask)],
         outlier_filter(data, filter_column, fit_column, sig_column,
                        level, degree, lstsq_raises))

remove_outliers(data, filter_column, fit_column, sig_column, level, degree, lstsq_raises) ==
    Eval(LAMBDA f : [status |-> f.status,
                     data   |-> IF f.status = "ok" THEN Select(data, f.mask) ELSE <<>>],
         outlier_filter(data, filter_column, fit_column, sig_column,
                        level, degree, lstsq_raises))


----------------------------------------------------------------------------
(* predict_time(local_time, history, window, level, degree).               *)
(* status is "ok" or the exception that ends the call.                     *)

WindowMask_closed(local_time, history, window) ==
    Tup([i \in 1..Len(history) |->
        /\ RLe(history[i].local_time, local_time)
        /\ RLt(RSub(local_time, window), history[i].local_time)])

\* history[(history['local_time'] < local_time) & (history['local_time'] >= local_time - window)]
WindowMask(local_time, history, window) ==
    Tup([i \in 1..Len(history) |->
        /\ RLt(history[i].local_time, local_time)
        /\ RLe(RSub(local_time, window), history[i].local_time)])

predict_time_trimmed_mean(local_time, history, window, level, degree, lstsq_raises) ==
    Eval(LAMBDA past_data :
      IF Len(past_data) < 5
      THEN IF Len(past_data) = 0
           THEN [status |-> "ok", value |-> local_time]
           ELSE [status |-> "ok",
                 value  |-> RAdd(local_time, Mean(Col(past_data, "offset")))]
      ELSE Eval(LAMBDA fr :
             LET filtered_data == fr.data
             IN  IF fr.status # "ok" THEN [status |-> fr.status, value |-> local_time]
                 ELSE IF Len(filtered_data) < 5
                 THEN IF Len(filtered_data) = 0
                      THEN [status |-> "ok", value |-> local_time]
                      ELSE [status |-> "ok",
                            value  |-> RAdd(local_time, Mean(Col(filtered_data, "offset")))]
                 ELSE Eval(LAMBDA tr :
                        IF tr.status # "ok"
                        THEN [status |-> tr.status, value |-> local_time]
                        ELSE [status |-> "ok",
                              value  |-> RAdd(local_time, polyval(tr.fit, local_time))],
                      polyfit_with_uncertainty(filtered_data, "local_time", "offset",
                                               "sig_offset", degree, lstsq_raises)),
           remove_outliers(past_data, "offset", "local_time", "sig_offset",
                           level, degree, lstsq_raises)),
      Select(history, WindowMask(local_time, history, window)))

predict_time(local_time, history, window, level, degree, lstsq_raises) ==
    Eval(LAMBDA past_data :
      IF Len(past_data) < 5
      THEN IF Len(past_data) = 0
           THEN [status |-> "ok", value |-> local_time]
           ELSE [status |-> "ok",
                 value  |-> RAdd(local_time, Mean(Col(past_data, "offset")))]
      ELSE Eval(LAMBDA fr :
             LET filtered_data == fr.data
             IN  IF fr.status # "ok" THEN [status |-> fr.status, value |-> local_time]
                 ELSE IF Len(filtered_data) < 5
                 THEN IF Len(filtered_data) = 0
                      THEN [status |-> "ok", value |-> local_time]
                      ELSE [status |-> "ok",
                            value  |-> RAdd(local_time, Mean(Col(past_data, "offset")))]
                 ELSE Eval(LAMBDA tr :
                        IF tr.status # "ok"
                        THEN [status |-> tr.status, value |-> local_time]
                        ELSE [status |-> "ok",
                              value  |-> RAdd(local_time, polyval(tr.fit, local_time))],
                      polyfit_with_uncertainty(filtered_data, "local_time", "offset",
                                               "sig_offset", degree, lstsq_raises)),
           remove_outliers(past_data, "offset", "local_time", "sig_offset",
                           level, degree, lstsq_raises)),
      Select(history, WindowMask(local_time, history, window)))

----------------------------------------------------------------------------
(* The script: startup (lines 161-171) and the acquisition loop (173-246). *)

\* range(60) requests per cycle in the source; bounded here
MaxRequests == 5
\* cycles of the while True loop that a run explores
MaxCycles == 2
\* responses of a run whose offset is not the nominal 0 or whose dispersion is 0
MaxOdd == 2
\* backward steps of the wall clock in a run
MaxClockSteps == 1

\* predict_time(localtime, history, window = 3000, level = 1.5, degree = 3)
Window == 3000
PredictLevel == <<3, 2>>
\* count_outliers / remove_outliers(..., level = 0.5, degree = 3)
TrimLevel == <<1, 2>>
Degree == 3
\* len(offsets) / 20
OutlierDivisor == 20

VARIABLES
    history,      \* the DataFrame history
    file,         \* the lines written to offsetlogger.csv by this run
    log,          \* the records written to offsetlogger.log by the loop
    clock,        \* the wall clock reading the next response will carry
    pc,           \* where the script is: sleep, request, trim, aggregate, crashed
    exception,    \* the unhandled exception that ended the script, "" if none
    i,            \* the index of the for loop over range(60)
    responses,    \* the list responses
    arrays,       \* local_times, pred_times, serv_times, offsets, sig_offsets, pred_offsets
    sample_data,  \* the DataFrame sample_data
    trims,        \* passes through the body of the while loop of line 217, this cycle
    cycles,       \* cycles started
    odd,          \* responses so far that were not nominal
    steps,        \* backward clock steps so far
    hist0,        \* history as it stood when the current cycle started
    file0,        \* file as it stood when the current cycle started
    args,         \* the arguments of a function called on its own, <<>> in the script
    ret           \* what that call returned, <<>> before it returns

loop == <<history, file, log, clock, pc, exception, i, responses, arrays,
          sample_data, trims, cycles, odd, steps, hist0, file0>>

vars == <<loop, args, ret>>

HistoryRow(lt, pt, st, off, sg, poff, psg) ==
    [local_time |-> lt, pred_time |-> pt, serv_time |-> st, offset |-> off,
     sig_offset |-> sg, pred_offset |-> poff, sig_pred_offset |-> psg]

\* a row as an earlier run wrote it: one sample at time t, no history before it
LoadedRow(t, off) ==
    HistoryRow(R(t), R(t), R(t + off), R(off), Sig(1, 1), R(off), Sig(1, 1))

(* pd.read_csv('offsetlogger.csv', comment='#', names=[...]): the rows an  *)
(* earlier run left in the file, none on a first run.                      *)
StartupFiles ==
    { <<>>, <<LoadedRow(-2, 0), LoadedRow(-1, 1)>> }

NoArrays ==
    [local_times |-> <<>>, pred_times |-> <<>>, serv_times |-> <<>>,
     offsets |-> <<>>, sig_offsets |-> <<>>, pred_offsets |-> <<>>,
     sig_pred_offsets |-> <<>>]

LoopInit ==
    /\ history \in StartupFiles
    /\ file = <<"#header">>
    /\ log = <<"info: NTP Offset Logger started">>
    /\ clock = 0
    /\ pc = "sleep"
    /\ exception = ""
    /\ i = 0
    /\ responses = <<>>
    /\ arrays = NoArrays
    /\ sample_data = <<>>
    /\ trims = 0
    /\ cycles = 0
    /\ odd = 0
    /\ steps = 0
    /\ hist0 = history
    /\ file0 = file

Init ==
    /\ LoopInit
    /\ args = <<>>
    /\ ret = <<>>

(* time.sleep(5 - (time.time() % 5)); responses = [].  The wall clock      *)
(* (time.time(), read by ntplib for orig_time and dest_time) moves forward *)
(* while the script sleeps, or is set back by whoever disciplines it.      *)
Sleep ==
    /\ pc = "sleep"
    /\ cycles < MaxCycles
    /\ \E back \in BOOLEAN :
         /\ back => steps < MaxClockSteps /\ clock > 0
         /\ clock' = IF back THEN 0 ELSE clock + 1
         /\ steps' = IF back THEN steps + 1 ELSE steps
    /\ responses' = <<>>
    /\ i' = 0
    /\ cycles' = cycles + 1
    /\ hist0' = history
    /\ file0' = file
    /\ pc' = "request"
    /\ UNCHANGED <<history, file, log, exception, arrays, sample_data, trims, odd,
                   args, ret>>

(* An ntplib response: the four timestamps, and offset and root_dispersion *)
(* as ntplib derives them.  The exchange takes no time on the model's      *)
(* clock: orig_time = dest_time = t and recv_time = tx_time = t + off.     *)
Response(t, off, disp) ==
    [orig_time |-> R(t), dest_time |-> R(t),
     recv_time |-> R(t + off), tx_time |-> R(t + off),
     offset |-> RDiv(RAdd(RSub(R(t + off), R(t)), RSub(R(t + off), R(t))), R(2)),
     root_dispersion |-> Sig(disp, 1)]

\* client.request(...) returns
RequestOk ==
    /\ pc = "request"
    /\ i < MaxRequests
    /\ \E off \in {0, 1}, disp \in {0, 1} :
         /\ (off # 0 \/ disp = 0) => odd < MaxOdd
         /\ odd' = IF off # 0 \/ disp = 0 THEN odd + 1 ELSE odd
         /\ responses' = Append(responses, Response(clock, off, disp))
    /\ clock' = clock + 1
    /\ i' = i + 1
    /\ UNCHANGED <<history, file, log, pc, exception, arrays, sample_data, trims,
                   cycles, steps, hist0, file0, args, ret>>

\* client.request(...) raises: except Exception logs a warning and goes on
RequestFail ==
    /\ pc = "request"
    /\ i < MaxRequests
    /\ log' = Append(log, "warning: Failed to fetch NTP data")
    /\ i' = i + 1
    /\ UNCHANGED <<history, file, clock, pc, exception, responses, arrays,
                   sample_data, trims, cycles, odd, steps, hist0, file0, args, ret>>

\* LAPACK's outcome on NaN weights matters only when some fit has no positive sigma
LstsqChoices(sigs) ==
    IF \A k \in 1..Len(sigs) : SigPos(sigs[k]) THEN {TRUE} ELSE BOOLEAN

\* lines 185-214: the arrays of the batch and the DataFrame built from them
BuildArrays(rs, h, lstsq_raises) ==
    LET n == Len(rs)
    IN  Eval(LAMBDA local_times : Eval(LAMBDA serv_times : Eval(LAMBDA preds :
          LET pred_times   == Tup([k \in 1..n |-> preds[k].value])
              offsets      == Tup([k \in 1..n |-> rs[k].offset])
              sig_offsets  == Tup([k \in 1..n |-> rs[k].root_dispersion])
              pred_offsets == Tup([k \in 1..n |-> RSub(serv_times[k], preds[k].value)])
              bad == {k \in 1..n : preds[k].status # "ok"}
          IN  [status |-> IF bad = {} THEN "ok"
                          ELSE preds[CHOOSE k \in bad : \A m \in bad : k <= m].status,
               arrays |-> [local_times |-> local_times, pred_times |-> pred_times,
                           serv_times |-> serv_times, offsets |-> offsets,
                           sig_offsets |-> sig_offsets, pred_offsets |-> pred_offsets,
                           sig_pred_offsets |-> sig_offsets]],
          Tup([k \in 1..n |-> predict_time(local_times[k], h, R(Window),
                                           PredictLevel, Degree, lstsq_raises)])),
          Tup([k \in 1..n |-> RDiv(RAdd(rs[k].tx_time, rs[k].recv_time), R(2))])),
          Tup([k \in 1..n |-> RDiv(RAdd(rs[k].orig_time, rs[k].dest_time), R(2))]))

DataFrame(a) ==
    Tup([k \in 1..Len(a.local_times) |->
        HistoryRow(a.local_times[k], a.pred_times[k], a.serv_times[k], a.offsets[k],
                   a.sig_offsets[k], a.pred_offsets[k], a.sig_pred_offsets[k])])

Predict ==
    /\ pc = "request"
    /\ i = MaxRequests
    /\ \E lstsq_raises \in LstsqChoices(Col(history, "sig_offset")) :
         \E b \in {BuildArrays(responses, history, lstsq_raises)} :
             IF b.status = "ok"
             THEN /\ arrays' = b.arrays
                  /\ sample_data' = DataFrame(b.arrays)
                  /\ trims' = 0
                  /\ pc' = "trim"
                  /\ exception' = exception
             ELSE /\ pc' = "crashed"
                  /\ exception' = b.status
                  /\ UNCHANGED <<arrays, sample_data, trims>>
    /\ UNCHANGED <<history, file, log, clock, i, responses, cycles, odd, steps,
                   hist0, file0, args, ret>>

\* the body removing with the fences of predict_time (level 1.5)
TrimStep_wide_remove(data, n0, lstsq_raises) ==
    Eval(LAMBDA c :
      IF c.status # "ok"
      THEN [pc |-> "crashed", exception |-> c.status, data |-> data]
      ELSE IF OutlierDivisor * c.count > n0
      THEN IF Len(data) < 5
           THEN [pc |-> "aggregate", exception |-> "", data |-> data]
           ELSE Eval(LAMBDA r : [pc |-> "trim", exception |-> "", data |-> r.data],
                     remove_outliers(data, "offset", "local_time", "sig_offset",
                                     PredictLevel, Degree, lstsq_raises))
      ELSE [pc |-> "aggregate", exception |-> "", data |-> data],
      count_outliers(data, "offset", "local_time", "sig_offset",
                     TrimLevel, Degree, lstsq_raises))

(* One evaluation of the while condition of line 217 and, when it holds,   *)
(* one pass through the body (lines 219-222).  n0 is len(offsets), the     *)
(* size of the batch before any trimming.                                  *)
TrimStep(data, n0, lstsq_raises) ==
    Eval(LAMBDA c :
      IF c.status # "ok"
      THEN [pc |-> "crashed", exception |-> c.status, data |-> data]
      ELSE IF OutlierDivisor * c.count > n0
      THEN IF Len(data) < 5
           THEN [pc |-> "aggregate", exception |-> "", data |-> data]
           ELSE Eval(LAMBDA r : [pc |-> "trim", exception |-> "", data |-> r.data],
                     remove_outliers(data, "offset", "local_time", "sig_offset",
                                     TrimLevel, Degree, lstsq_raises))
      ELSE [pc |-> "aggregate", exception |-> "", data |-> data],
      count_outliers(data, "offset", "local_time", "sig_offset",
                     TrimLevel, Degree, lstsq_raises))

Trim ==
    /\ pc = "trim"
    /\ \E lstsq_raises \in LstsqChoices(Col(sample_data, "sig_offset")) :
         \E t \in {TrimStep(sample_data, Len(arrays.offsets), lstsq_raises)} :
             /\ pc' = t.pc
             /\ exception' = t.exception
             /\ sample_data' = t.data
             /\ trims' = IF t.pc = "trim" THEN trims + 1 ELSE trims
    /\ UNCHANGED <<history, file, log, clock, i, responses, arrays, cycles, odd,
                   steps, hist0, file0, args, ret>>

(* Lines 224-238: the record of the cycle.  The means are taken over the   *)
(* arrays built before the trim loop; sample_data is not read.             *)
NewData(a, data) ==
    Eval(LAMBDA o : Eval(LAMBDA q :
      IF o.status # "ok" THEN [status |-> o.status]
      ELSE [status |-> "ok",
            row |-> HistoryRow(Mean(a.local_times), Mean(a.pred_times),
                               Mean(a.serv_times), o.average, o.sigma,
                               q.average, q.sigma)],
      weighted_mean(a.pred_offsets, a.sig_pred_offsets)),
      weighted_mean(a.offsets, a.sig_offsets))

\* history.loc[len(history)] = new_data
HistoryAppend_overwrite(h, row) ==
    IF h = <<>> THEN <<row>> ELSE [h EXCEPT ![Len(h)] = row]

HistoryAppend_front(h, row) == <<row>> \o h

HistoryAppend(h, row) == Append(h, row)

\* lines 224-246: aggregate, append to history, write and flush the line
Aggregate ==
    /\ pc = "aggregate"
    /\ \E nd \in {NewData(arrays, sample_data)} :
           IF nd.status = "ok"
           THEN /\ history' = HistoryAppend(history, nd.row)
                /\ file' = Append(file, "data")
                /\ pc' = "sleep"
                /\ exception' = exception
           ELSE /\ pc' = "crashed"
                /\ exception' = nd.status
                /\ UNCHANGED <<history, file>>
    /\ UNCHANGED <<log, clock, i, responses, arrays, sample_data, trims, cycles,
                   odd, steps, hist0, file0, args, ret>>

Next == Sleep \/ RequestOk \/ RequestFail \/ Predict \/ Trim \/ Aggregate

Spec == Init /\ [][Next]_vars

----------------------------------------------------------------------------
(* Properties of the acquisition loop, checked under Spec.                 *)

\* a cycle has gone through lines 217-246 and its record is the last row
CycleRecorded == pc = "sleep" /\ Len(history) = Len(hist0) + 1

\* the batch of the current cycle has been built (lines 185-214)
BatchBuilt == pc \in {"trim", "aggregate"} \/ CycleRecorded

\* the record of lines 224-238 had the means been taken over sample_data
NewData_surviving(a, data) ==
    Eval(LAMBDA o : Eval(LAMBDA q :
      IF o.status # "ok" THEN [status |-> o.status]
      ELSE [status |-> "ok",
            row |-> HistoryRow(Mean(Col(data, "local_time")), Mean(Col(data, "pred_time")),
                               Mean(Col(data, "serv_time")), o.average, o.sigma,
                               q.average, q.sigma)],
      weighted_mean(Col(data, "pred_offset"), Col(data, "sig_pred_offset"))),
      weighted_mean(Col(data, "offset"), Col(data, "sig_offset")))

(* C1: the record appended by a cycle holds, in all seven fields, the      *)
(* means over the samples that survived the trim loop (sample_data).       *)
C1_RecordOverSurvivors ==
    CycleRecorded =>
        /\ NewData_surviving(arrays, sample_data).status = "ok"
        /\ history[Len(history)] = NewData_surviving(arrays, sample_data).row

(* C2: a batch of at least 5 samples never leaves the trim loop, nor any   *)
(* of its iterations, with fewer than 5 surviving samples.                 *)
C2_TrimKeepsFive ==
    (BatchBuilt /\ Len(arrays.offsets) >= 5) => Len(sample_data) >= 5

(* C3: a cycle whose requests all failed appends no record, writes no data *)
(* line, does not end in an unhandled exception, and goes back to sleep    *)
(* with the empty cycle logged (a record after the last request's warning).*)
C3_EmptyCycleSkipped ==
    (cycles > 0 /\ i = MaxRequests /\ responses = <<>>) =>
        /\ pc # "crashed"
        /\ history = hist0
        /\ file = file0
        /\ pc = "sleep" => log[Len(log)] # "warning: Failed to fetch NTP data"

\* history is non-decreasing in local_time
HistoryOrdered ==
    \A k \in 1..(Len(history) - 1) :
        history[k].local_time[1] * history[k + 1].local_time[2]
            <= history[k + 1].local_time[1] * history[k].local_time[2]

(* C9 as stated: after any number of cycles the history is non-decreasing  *)
(* in local_time.                                                          *)
C9_HistoryOrdered == HistoryOrdered

(* C9 as amended: the history is non-decreasing in local_time as long as   *)
(* the wall clock has not been set back since the loaded rows were taken.  *)
C9_OrderedWhileClockForward == steps = 0 => HistoryOrdered

\* two records by two cycles of one run, the clock never set back
C9_TwoRecordsClockForward ==
    /\ steps = 0
    /\ CycleRecorded
    /\ cycles = 2
    /\ Len(history) >= 2
    /\ history[Len(history)].local_time # history[Len(history) - 1].local_time

(* C10: while a cycle runs, history is what it was when the cycle started; *)
(* when the cycle is done, history is that plus exactly one row at the end.*)
C10_AppendOnly ==
    \/ history = hist0
    \/ /\ CycleRecorded
       /\ SubSeq(history, 1, Len(hist0)) = hist0

\* a cycle appended to a history that already held rows
C10_AppendedToRows == CycleRecorded /\ Len(hist0) > 0 /\ cycles = MaxCycles

\* the requests of the current cycle that raised
FailedRequests == i - Len(responses)

(* C11: within a cycle every request of the for loop is attempted once,    *)
(* failed or not; the batch holds one sample per request that returned, in *)
(* order; and a cycle in which a request failed does not end in an         *)
(* unhandled exception but goes on to aggregation with those samples.      *)
C11_FailuresTolerated ==
    cycles > 0 =>
        /\ Len(responses) <= i /\ i <= MaxRequests
        /\ pc # "request" => i = MaxRequests
        /\ BatchBuilt =>
               /\ Len(arrays.offsets) = Len(responses)
               /\ \A k \in 1..Len(responses) :
                      /\ arrays.offsets[k] = responses[k].offset
                      /\ arrays.sig_offsets[k] = responses[k].root_dispersion
        /\ FailedRequests > 0 => pc # "crashed"

----------------------------------------------------------------------------
(* The functions of lines 14-159 called on their own: the arguments are    *)
(* drawn in the initial state, the call is the one step.  The script has   *)
(* not started a cycle.                                                    *)

ScriptIdle == LoopInit /\ history = <<>>

\* all sequences of length 0..n over S
SeqsUpTo(S, n) == UNION {[1..m -> S] : m \in 0..n}

(* weights_from_uncertainty, weighted_mean, polyfit_with_uncertainty.      *)
MaxSigmas == 4
Sigmas == {-1, 0, 1, 2, 4}

SigSeq(s) == Tup([k \in 1..Len(s) |-> Sig(s[k], 1)])

\* data to go with n uncertainties: the values 1..n at the abscissae 1..n
WeightsRows(s) ==
    Tup([k \in 1..Len(s) |->
        [local_time |-> R(k), offset |-> R(k), sig_offset |-> Sig(s[k], 1)]])

WeightsInit ==
    /\ ScriptIdle
    /\ args \in UNION {{[sig_data |-> s, series |-> b, lstsq_raises |-> l] :
                           b \in BOOLEAN, l \in LstsqChoices(SigSeq(s))} :
                       s \in SeqsUpTo(Sigmas, MaxSigmas)}
    /\ ret = <<>>

WeightsCall ==
    /\ ret = <<>>
    /\ ret' = [weights |-> weights_from_uncertainty(SigSeq(args.sig_data), args.series),
               mean    |-> weighted_mean(Col(WeightsRows(args.sig_data), "offset"),
                                         SigSeq(args.sig_data)),
               fit     |-> polyfit_with_uncertainty(WeightsRows(args.sig_data),
                               "local_time", "offset", "sig_offset", Degree,
                               args.lstsq_raises)]
    /\ UNCHANGED <<loop, args>>

WeightsSpec == WeightsInit /\ [][WeightsCall]_vars

(* outlier_filter(data, filter_column, level = level) without a fit column *)
MaxValues == 4
Values == {1, 2, 3, 5, 50}
Examples == {<<1, 2, 3, 4, 5, 100>>, <<5, 5, 5, 5, 5, 50>>}
Levels == {<<1, 2>>, <<3, 2>>}

FilterInit ==
    /\ ScriptIdle
    /\ args \in {[values |-> v, level |-> l] :
                    v \in SeqsUpTo(Values, MaxValues) \cup Examples, l \in Levels}
    /\ ret = <<>>

FilterCall ==
    /\ ret = <<>>
    /\ ret' = outlier_filter(Tup([k \in 1..Len(args.values) |->
                                     [offset |-> R(args.values[k])]]),
                             "offset", "", "", args.level, Degree, TRUE)
    /\ UNCHANGED <<loop, args>>

FilterSpec == FilterInit /\ [][FilterCall]_vars

(* predict_time(local_time, history, window, level = 1.5, degree = 3) on a *)
(* history whose k-th row was recorded at time k.  The sig_offset of a row *)
(* is sqrt(1 / sum(weights)) of its batch, hence positive.                 *)
MaxHistory == 5
Offsets == {0, 1}
PositiveSigmas == {1, 2}

PredictRows(h) ==
    Tup([k \in 1..Len(h) |->
        HistoryRow(R(k), R(k), R(k + h[k][1]), R(h[k][1]), Sig(h[k][2], 1),
                   R(h[k][1]), Sig(h[k][2], 1))])

PredictInit ==
    /\ ScriptIdle
    /\ args \in {[history |-> h, local_time |-> t, window |-> w] :
                    h \in SeqsUpTo(Offsets \X PositiveSigmas, MaxHistory),
                    t \in {1, MaxHistory, MaxHistory + 1},
                    w \in {MaxHistory - 1, MaxHistory}}
    /\ ret = <<>>

PredictCall ==
    /\ ret = <<>>
    /\ ret' = predict_time(R(args.local_time), PredictRows(args.history),
                           R(args.window), PredictLevel, Degree, TRUE)
    /\ UNCHANGED <<loop, args>>

PredictSpec == PredictInit /\ [][PredictCall]_vars

----------------------------------------------------------------------------
(* Properties of predict_time, checked under PredictSpec.  They are stated *)
(* on the integers the arguments were drawn from.                          *)

\* the rows of the history that lie in [local_time - window, local_time)
Selection ==
    {k \in 1..Len(args.history) :
        args.local_time - args.window <= k /\ k < args.local_time}

\* the sum of the offsets of the rows K
OffsetSum(K) == Cardinality({k \in K : args.history[k][1] = 1})

\* v = local_time + mean(offsets of the rows K), K not empty
IsTimePlusMean(v, K) ==
    v[1] * Cardinality(K) = (args.local_time * Cardinality(K) + OffsetSum(K)) * v[2]

\* what remove_outliers leaves of the selection
Trimmed ==
    remove_outliers(Select(PredictRows(args.history),
                           Tup([k \in 1..Len(args.history) |-> k \in Selection])),
                    "offset", "local_time", "sig_offset", PredictLevel, Degree, TRUE).data

(* C4: with the selection the rows in [t - window, t), predict_time        *)
(* returns t when the selection is empty, and t plus the mean of the       *)
(* selection's offsets when it has 1 to 4 rows.                            *)
C4_FewRowsFallback ==
    ret # <<>> =>
        /\ Selection = {} => ret = [status |-> "ok", value |-> R(args.local_time)]
        /\ Cardinality(Selection) \in 1..4 =>
               ret.status = "ok" /\ IsTimePlusMean(ret.value, Selection)

\* a call whose history has a row at t - window (selected) and a row at t (not)
C4_BothEndsOfWindow ==
    /\ ret # <<>>
    /\ Cardinality(Selection) \in 1..4
    /\ args.local_time - args.window \in Selection
    /\ args.local_time \in 1..Len(args.history)
    /\ OffsetSum(Selection) > 0
    /\ OffsetSum(Selection) # OffsetSum(Selection \cup {args.local_time})

----------------------------------------------------------------------------
(* Properties of the weighting, checked under WeightsSpec.                 *)

SomePositive == \E k \in 1..Len(args.sig_data) : args.sig_data[k] > 0

\* the least strictly positive uncertainty of the arguments
MinPositive ==
    CHOOSE m \in {args.sig_data[k] : k \in 1..Len(args.sig_data)} :
        /\ m > 0
        /\ \A k \in 1..Len(args.sig_data) : args.sig_data[k] > 0 => m <= args.sig_data[k]

(* C6: when no uncertainty is strictly positive, weighted_mean and         *)
(* polyfit_with_uncertainty use uniform weights: the mean is the plain     *)
(* mean and the fit is the unweighted fit.                                 *)
C6_UniformFallback ==
    (ret # <<>> /\ ~SomePositive /\ Len(args.sig_data) > 0) =>
        /\ ret.mean.status = "ok"
        /\ ret.mean.average = Mean(Col(WeightsRows(args.sig_data), "offset"))
        /\ ret.fit.status = "ok"
        /\ ret.fit.fit = polyfit(Col(WeightsRows(args.sig_data), "local_time"),
                                 Col(WeightsRows(args.sig_data), "offset"),
                                 Degree, Ones(Len(args.sig_data)))

(* C7: with some strictly positive uncertainty, the weights are 1 / s^2    *)
(* with s the uncertainty when positive and half the least positive one    *)
(* otherwise, [0, -1, 2, 4] gives [1, 1, 1/4, 1/16], and the caller's      *)
(* sequence is as it was.                                                  *)
C7_WeightsAndCallerData ==
    (ret # <<>> /\ SomePositive) =>
        /\ ret.weights.status = "ok"
        /\ Len(ret.weights.weights) = Len(args.sig_data)
        /\ \A k \in 1..Len(args.sig_data) :
              LET w == ret.weights.weights[k]
                  sg == args.sig_data[k]
              IN  IF sg > 0 THEN w[1] * sg * sg = w[2]
                  ELSE w[1] * MinPositive * MinPositive = 4 * w[2]
        /\ args.sig_data = <<0, -1, 2, 4>> =>
              ret.weights.weights = <<<<1, 1>>, <<1, 1>>, <<1, 4>>, <<1, 16>>>>
        /\ ret.weights.sig_data = SigSeq(args.sig_data)

\* the call on [0, -1, 2, 4] has returned
C7_ExampleReturned ==
    /\ ret # <<>>
    /\ args.sig_data = <<0, -1, 2, 4>>
    /\ ret.weights.weights = <<<<1, 1>>, <<1, 1>>, <<1, 4>>, <<1, 16>>>>

----------------------------------------------------------------------------
(* Properties of outlier_filter, checked under FilterSpec, stated on the   *)
(* integers the values were drawn from.                                    *)

\* the k-th smallest of the values
OrderStatistic(k) ==
    CHOOSE x \in {args.values[j] : j \in 1..Len(args.values)} :
        /\ Cardinality({j \in 1..Len(args.values) : args.values[j] < x}) < k
        /\ Cardinality({j \in 1..Len(args.values) : args.values[j] <= x}) >= k

\* 4 times the q/4 quantile, linear interpolation between order statistics
FourQuantile(q) ==
    LET h  == (Len(args.values) - 1) * q
        lo == h \div 4
        r  == h % 4
    IN  IF r = 0 THEN 4 * OrderStatistic(lo + 1)
        ELSE (4 - r) * OrderStatistic(lo + 1) + r * OrderStatistic(lo + 2)

\* Q1 - level * IQR <= x <= Q3 + level * IQR, both sides times 4 * level[2]
WithinFences(x) ==
    LET q1  == FourQuantile(1)
        q3  == FourQuantile(3)
        ln  == args.level[1]
        ld  == args.level[2]
    IN  /\ ld * q1 - ln * (q3 - q1) <= 4 * ld * x
        /\ 4 * ld * x <= ld * q3 + ln * (q3 - q1)

(* C8: without a fit column the mask has the length and order of the       *)
(* input, and element i is true exactly when                               *)
(* Q1 - level*IQR <= value_i <= Q3 + level*IQR; on [1,2,3,4,5,100] at      *)
(* level 1.5 only 100 is flagged, on [5,5,5,5,5,50] only 50.               *)
C8_MaskIsFences ==
    ret # <<>> =>
        /\ ret.status = "ok"
        /\ Len(ret.mask) = Len(args.values)
        /\ \A k \in 1..Len(args.values) : ret.mask[k] <=> WithinFences(args.values[k])
        /\ (args.values = <<1, 2, 3, 4, 5, 100>> /\ args.level = <<3, 2>>) =>
              ret.mask = <<TRUE, TRUE, TRUE, TRUE, TRUE, FALSE>>
        /\ args.values = <<5, 5, 5, 5, 5, 50>> =>
              ret.mask = <<TRUE, TRUE, TRUE, TRUE, TRUE, FALSE>>

\* the call on the zero-IQR example has returned
C8_ZeroIqrExampleReturned ==
    /\ ret # <<>>
    /\ args.values = <<5, 5, 5, 5, 5, 50>>
    /\ ret.mask = <<TRUE, TRUE, TRUE, TRUE, TRUE, FALSE>>


----------------------------------------------------------------------------
(* The trim loop of lines 217-222 on batches as large as the divisor of    *)
(* line 217 (range(60) collects up to three times as many).  A batch is    *)
(* the responses of one cycle on a first run (no history).  The wall clock *)
(* has a resolution: the requests of the cycle fall into a few ticks of    *)
(* it, and those answered within one tick carry the same orig_time and     *)
(* dest_time.  In each tick the first few samples are off, by 2 in the     *)
(* first tick and by 1 in the later ones; all samples of a batch carry the *)
(* same dispersion, positive or zero.  The loop runs as in the script, by  *)
(* the action Trim, until it leaves pc = "trim".                           *)
MaxBatch == 20
MaxTicks == 4
MaxShifted == 3

BatchSizes == (1..MaxRequests) \cup {MaxBatch}

\* the tick in which sample k of n is taken, and its rank among that tick's
Tick(k, n) == ((k - 1) * MaxTicks) \div n + 1

RankInTick(k, n) == Cardinality({j \in 1..k : Tick(j, n) = Tick(k, n)})

ShiftOf(t) == IF t = 1 THEN 2 ELSE 1

TrimBatches ==
    UNION {{Tup([k \in 1..n |->
                Response(Tick(k, n),
                         IF RankInTick(k, n) <= s[Tick(k, n)]
                         THEN ShiftOf(Tick(k, n)) ELSE 0,
                         disp)]) :
               s \in [1..MaxTicks -> 0..MaxShifted], disp \in {0, 1}} :
           n \in BatchSizes}

TrimInit ==
    /\ responses \in TrimBatches
    /\ arrays = BuildArrays(responses, <<>>, TRUE).arrays
    /\ sample_data = DataFrame(arrays)
    /\ trims = 0
    /\ pc = "trim"
    /\ history = <<>>
    /\ file = <<"#header">>
    /\ log = <<"info: NTP Offset Logger started">>
    /\ clock = Len(responses) + 1
    /\ exception = ""
    /\ i = Len(responses)
    /\ cycles = 1
    /\ odd = 0
    /\ steps = 0
    /\ hist0 = history
    /\ file0 = file
    /\ args = <<>>
    /\ ret = <<>>

TrimSpec == TrimInit /\ [][Trim]_vars


----------------------------------------------------------------------------
(* Properties of the trim loop, checked under TrimSpec.                    *)

\* the loop has stopped: its condition failed or it took the break
TrimStopped == pc = "aggregate"

\* the outliers flagged in the surviving set, as line 217 counts them
FlaggedInSurvivors ==
    count_outliers(sample_data, "offset", "local_time", "sig_offset",
                   TrimLevel, Degree, TRUE)

(* C12: when the trim loop stops, the outliers flagged in the surviving    *)
(* set are at most 1/20 of the size of that set, or fewer than 5 samples   *)
(* remain.                                                                 *)
C12_StopsAtFractionOfSurvivors ==
    TrimStopped =>
        \/ Len(sample_data) < 5
        \/ /\ FlaggedInSurvivors.status = "ok"
           /\ OutlierDivisor * FlaggedInSurvivors.count <= Len(sample_data)

(* C13: the trim loop terminates for every batch: a pass through its body *)
(* that does not stop the loop leaves fewer samples than it found, so the  *)
(* passes made are at most as many as the samples removed, and at most the *)
(* size of the batch.                                                      *)
C13_TrimTerminates ==
    /\ [][(pc = "trim" /\ pc' = "trim") =>
              Len(sample_data') < Len(sample_data)]_vars
    /\ [](pc \in {"trim", "aggregate"} =>
              trims <= Len(arrays.offsets) - Len(sample_data))

\* a batch of MaxBatch samples was trimmed and the loop stopped above the floor
C13_TrimmedThenStopped ==
    /\ TrimStopped
    /\ Len(arrays.offsets) = MaxBatch
    /\ 5 <= Len(sample_data)
    /\ Len(sample_data) < Len(arrays.offsets)

=============================================================================
